---- MODULE Spec2Model ----
(***************************************************************************)
(* Model of the lyrics training-pair pipeline (src/main.py, src/utils.py). *)
(*                                                                         *)
(* A Python str is a sequence of one-character strings.  None is the       *)
(* one-element sequence NoneVal, whose element is no character, so that a  *)
(* value is either None or a str and the two can be compared.  A JSON      *)
(* object is a function from a subset of Keys to values.  A line of the    *)
(* input file is a record [kind, obj]: "blank" (empty after strip()),      *)
(* "bad" (json.loads raises JSONDecodeError) or "obj" (json.loads returns  *)
(* the JSON object obj).  Lines holding JSON that is no object, and        *)
(* lyrics that are truthy but no str, are left out of the inputs.          *)
(***************************************************************************)
EXTENDS Naturals, Sequences, FiniteSets

\* ---------------------------------------------------------------- bounds
MaxLines == 3        \* short input files have at most this many lines
MaxBatches == 2      \* long input files hold at most this many full batches
MaxRuns == 2         \* run() is called at most this many times in a behaviour
MaxRerunLines == 2   \* ... on inputs of at most this many lines, else once
MaxCap == 2          \* max_items is None or 0..MaxCap
MaxLen == 3          \* longest title / lyrics given to add_title_to_lyrics

\* ------------------------------------------------------ program constants
FlushThreshold == 100   \* main.py:73  len(out_rows) >= 100
DefaultSleep == 6       \* main.py:33  rate_limit_sleep = 0.6, in tenths

\* ---------------------------------------------------------------- values
NoneVal == <<"<None>">>
Whitespace == {" ", "\n", "\t"}

\* Python truthiness of a value that is None or a str
Truthy(v) == v # NoneVal /\ v # <<>>

\* f"{v}": str(None) is the text None, a str formats as itself
Format(v) == IF v = NoneVal THEN <<"N", "o", "n", "e">> ELSE v

RECURSIVE LStrip(_)
LStrip(s) == IF s # <<>> /\ Head(s) \in Whitespace THEN LStrip(Tail(s)) ELSE s

RECURSIVE RStrip(_)
RStrip(s) ==
    IF s # <<>> /\ s[Len(s)] \in Whitespace
    THEN RStrip(SubSeq(s, 1, Len(s) - 1))
    ELSE s

\* str.strip()
Strip(s) == RStrip(LStrip(s))

\* dict.get(key): None when the key is missing
Get(d, key) == IF key \in DOMAIN d THEN d[key] ELSE NoneVal

\* SongEntry.from_dict
from_dict(d) ==
    [rapper_name |-> Get(d, "rapper"),
     song_title  |-> Get(d, "title"),
     song_year   |-> Get(d, "year"),
     song_lyrics |-> Get(d, "lyrics")]

NoEntry ==
    [rapper_name |-> NoneVal, song_title |-> NoneVal,
     song_year |-> NoneVal, song_lyrics |-> NoneVal]

\* PromptBuilder.build_prompt
build_prompt(entry, summary) ==
    <<"W", "r", "i", "t", "e", " ", "a", " ", "r", "a", "p", " ", "s", "o",
      "n", "g", " ", "i", "n", " ", "y", "e", "a", "r", " ">>
    \o Format(entry.song_year)
    \o <<"'", "s", " ">>
    \o Format(entry.rapper_name)
    \o <<" ", "s", "t", "y", "l", "e", ".", " ">>
    \o <<"T", "h", "e", " ", "t", "o", "p", "i", "c", " ", "i", "s", " ", "a",
         "b", "o", "u", "t", ":", " ">>
    \o summary

\* a plausible slip: the lyrics are not stripped
add_title_unstripped(title, lyrics) ==
    LET title_line == Strip(Format(title))
    IN  IF title_line = <<>>
        THEN lyrics
        ELSE title_line \o <<"\n", "\n">> \o lyrics

\* LyricsPostProcessor.add_title_to_lyrics
add_title_to_lyrics(title, lyrics) ==
    LET title_line == Strip(Format(title))
    IN  IF title_line = <<>>
        THEN Strip(lyrics)
        ELSE title_line \o <<"\n", "\n">> \o Strip(lyrics)

\* a plausible slip: the output is formatted, a null output not replaced
summarize_text_unguarded(output_text) == Strip(Format(output_text))

\* the text LyricsSummarizer.summarize returns for the service's output_text
summarize_text(output_text) ==
    Strip(IF Truthy(output_text) THEN output_text ELSE <<>>)

\* ---------------------------------------------------------------- inputs
\* Optional[int]: None is <<>>, the integer n is <<n>>
NoCap == <<>>
Caps == {NoCap} \cup {<<n>> : n \in 0..MaxCap}

Song1 == [rapper |-> <<"A">>, title |-> <<" ", "T", "\n">>, year |-> <<"9">>,
          lyrics |-> <<" ", "x", "\n", "y", " ">>]
Song2 == [rapper |-> <<"B">>, year |-> <<"8">>, lyrics |-> <<"z">>]
Song3 == [rapper |-> <<"C">>, title |-> <<"U">>, year |-> <<"7">>]
Song4 == [rapper |-> <<"D">>, title |-> <<"V">>, lyrics |-> <<>>]
Songs == {Song1, Song2, Song3, Song4}

BlankLine == [kind |-> "blank", obj |-> <<>>]
BadLine == [kind |-> "bad", obj |-> <<>>]
ObjLine(o) == [kind |-> "obj", obj |-> o]
Lines == {BlankLine, BadLine} \cup {ObjLine(o) : o \in Songs}

ShortFiles == UNION {[1..n -> Lines] : n \in 0..MaxLines}

\* a long input: m records, Song1 and Song2 in turn
LongFile(m) == [k \in 1..m |-> ObjLine(IF k % 2 = 1 THEN Song1 ELSE Song2)]
LongSizes ==
    {b * FlushThreshold + r :
        b \in 0..MaxBatches, r \in {0, 1, FlushThreshold \div 2, FlushThreshold - 1}}
LongFiles == {LongFile(m) : m \in {n \in LongSizes : n > MaxLines}}

\* what the service's output_text can be
DefaultText == <<" ", "s", "\n">>
OutputTexts == {NoneVal, <<>>, DefaultText}

VARIABLES
    file,        \* the lines of the input file
    sink,        \* the lines of the output file, one pair each
    rate_limit_sleep,  \* LyricsDataPipeline.rate_limit_sleep, in tenths
    max_items,   \* the argument of the current run()
    pc,          \* where run() is
    line_no,     \* JSONLReader.read: lines of the file consumed
    i,           \* run(): the index enumerate() gave the last record
    entry,       \* run(): the SongEntry of the record in hand
    summary,     \* run(): the summary of the record in hand
    resp,        \* history: the service response summarize() holds, if any
    out_rows,    \* run(): the batch buffer
    err,         \* the exception that ended run(), if any
    calls,       \* history: the Summarizer calls of this run
    writes,      \* history: the sizes of the write_many calls of this run
    sleeps,      \* history: the number of time.sleep calls of this run
    base,        \* history: the sink when this run() was called
    truncated,   \* history: the latest construction emptied a non-empty sink
    runs,        \* history: the number of run() calls so far
    instance_runs, \* history: the number of run() calls on this pipeline
    title,       \* a direct call of add_title_to_lyrics: its title
    lyrics,      \* a direct call of add_title_to_lyrics: its lyrics
    completion   \* a direct call of add_title_to_lyrics: its result

vars == <<file, sink, rate_limit_sleep, max_items, pc, line_no, i, entry, summary,
          resp, out_rows, err, calls, writes, sleeps, base, truncated, runs,
          instance_runs, title, lyrics, completion>>

pipeline == <<file, sink, rate_limit_sleep, max_items, pc, line_no, i, entry,
              summary, resp, out_rows, err, calls, writes, sleeps, base,
              truncated, runs, instance_runs>>
direct == <<title, lyrics, completion>>

NoError == [type |-> "none", line_no |-> 0]

\* no response in hand; a response with output_text t is <<t>>
NoResponse == <<>>

\* how often run() is called on this input, and what the service replies:
\* long inputs get one reply text, they are there for the batch boundaries
RunBudget == IF Len(file) <= MaxRerunLines THEN MaxRuns ELSE 1
Replies == IF Len(file) <= MaxLines THEN OutputTexts ELSE {DefaultText}

\* ------------------------------------------------------------ reader, writer
\* a plausible slip: the reader passes over malformed lines too
RECURSIVE NextNonBlank_lenient(_, _)
NextNonBlank_lenient(f, k) ==
    IF k > Len(f) \/ f[k].kind = "obj" THEN k ELSE NextNonBlank_lenient(f, k + 1)

\* the first index >= k of a line that is not blank, Len(f) + 1 when none
RECURSIVE NextNonBlank(_, _)
NextNonBlank(f, k) ==
    IF k > Len(f) \/ f[k].kind # "blank" THEN k ELSE NextNonBlank(f, k + 1)

\* a plausible slip: the file is opened with mode "w" on every call
write_many_truncating(content, rows) == rows

\* JSONLWriter.write_many: the file content after the call
write_many(content, rows) == content \o rows

\* a plausible slip: overwrite is not honoured
writer_init_keep(content, overwrite) == content

\* JSONLWriter.__init__: the file content after construction
writer_init(content, overwrite) == IF overwrite THEN <<>> ELSE content

\* a plausible slip: i >= max_items
cap_reached_early(cap, idx) == cap # NoCap /\ cap[1] # 0 /\ idx >= cap[1]

\* main.py:47  max_items and i > max_items
cap_reached(cap, idx) == cap # NoCap /\ cap[1] # 0 /\ idx > cap[1]

\* a plausible slip: only a missing lyrics key is skipped
lyrics_missing_none_only(e) == e.song_lyrics = NoneVal

\* main.py:51  not entry.song_lyrics
lyrics_missing(e) == ~Truthy(e.song_lyrics)

\* a plausible slip: flush only above the threshold
buffer_full_late(rows) == Len(rows) > FlushThreshold

\* main.py:73  len(out_rows) >= 100
buffer_full(rows) == Len(rows) >= FlushThreshold

\* a plausible slip: the error names the record index, not the line
bad_line_error_by_record(n, idx) == [type |-> "ValueError", line_no |-> idx + 1]

\* utils.py:44  ValueError(f"Invalid JSON on line {line_no}: ...")
bad_line_error(n, idx) == [type |-> "ValueError", line_no |-> n]

\* ------------------------------------------------------------------ Init
\* the state after LyricsDataPipeline(input_path, output_path): the sink
\* is empty, run() has not been called
Init ==
    /\ file \in ShortFiles \cup LongFiles
    /\ max_items \in Caps
    /\ sink = <<>>
    /\ rate_limit_sleep = DefaultSleep
    /\ pc = "Idle"
    /\ line_no = 0
    /\ i = 0
    /\ entry = NoEntry
    /\ summary = <<>>
    /\ resp = NoResponse
    /\ out_rows = <<>>
    /\ err = NoError
    /\ calls = <<>>
    /\ writes = <<>>
    /\ sleeps = 0
    /\ base = <<>>
    /\ truncated = FALSE
    /\ runs = 0
    /\ instance_runs = 0
    /\ title = NoneVal
    /\ lyrics = <<>>
    /\ completion = NoneVal

\* --------------------------------------------------------------- actions
\* LyricsDataPipeline.__init__ on the same paths, after a run has ended
Construct ==
    /\ pc \in {"Done", "Failed"}
    /\ runs < RunBudget
    /\ sink' = writer_init(sink, TRUE)
    /\ truncated' = (sink # <<>>)
    /\ rate_limit_sleep' \in {0, DefaultSleep}
    /\ pc' = "Idle"
    /\ line_no' = 0
    /\ i' = 0
    /\ entry' = NoEntry
    /\ summary' = <<>>
    /\ resp' = NoResponse
    /\ out_rows' = <<>>
    /\ err' = NoError
    /\ calls' = <<>>
    /\ writes' = <<>>
    /\ sleeps' = 0
    /\ base' = <<>>
    /\ instance_runs' = 0
    /\ UNCHANGED <<file, max_items, runs, direct>>

\* a plausible slip: run() empties the sink when it starts
EnterTruncating ==
    /\ runs < RunBudget
    /\ runs' = runs + 1
    /\ instance_runs' = instance_runs + 1
    /\ base' = sink
    /\ sink' = <<>>
    /\ out_rows' = <<>>
    /\ line_no' = 0
    /\ i' = 0
    /\ entry' = NoEntry
    /\ summary' = <<>>
    /\ resp' = NoResponse
    /\ err' = NoError
    /\ calls' = <<>>
    /\ writes' = <<>>
    /\ sleeps' = 0
    /\ pc' = "Reading"
    /\ UNCHANGED <<file, rate_limit_sleep, max_items, truncated, direct>>

\* the entry of run(): main.py:43
Enter ==
    /\ runs < RunBudget
    /\ runs' = runs + 1
    /\ instance_runs' = instance_runs + 1
    /\ base' = sink
    /\ out_rows' = <<>>
    /\ line_no' = 0
    /\ i' = 0
    /\ entry' = NoEntry
    /\ summary' = <<>>
    /\ resp' = NoResponse
    /\ err' = NoError
    /\ calls' = <<>>
    /\ writes' = <<>>
    /\ sleeps' = 0
    /\ pc' = "Reading"
    /\ UNCHANGED <<file, sink, rate_limit_sleep, max_items, truncated, direct>>

\* run() on a pipeline that has not run yet
Run == pc = "Idle" /\ Enter

\* run() again on the pipeline whose run has returned (an exception ends
\* the process: main.py:95-101 catches nothing)
RunAgain == pc = "Done" /\ Enter

\* the line the reader stops at next
NextLine == NextNonBlank(file, line_no + 1)

\* JSONLReader.read ends: the for loop of run() ends
ReaderExhausted ==
    /\ pc = "Reading"
    /\ NextLine > Len(file)
    /\ line_no' = Len(file)
    /\ pc' = "FinalFlush"
    /\ UNCHANGED <<file, sink, rate_limit_sleep, max_items, i, entry, summary, resp,
                   out_rows, err, calls, writes, sleeps, base, truncated, runs,
                   instance_runs, direct>>

\* JSONLReader.read raises on a malformed line: utils.py:43-44
ReaderRaises ==
    /\ pc = "Reading"
    /\ NextLine <= Len(file)
    /\ file[NextLine].kind = "bad"
    /\ line_no' = NextLine
    /\ err' = bad_line_error(NextLine, i)
    /\ pc' = "Failed"
    /\ UNCHANGED <<file, sink, rate_limit_sleep, max_items, i, entry, summary, resp,
                   out_rows, calls, writes, sleeps, base, truncated, runs,
                   instance_runs, direct>>

\* the reader yields record i + 1 and the cap stops the loop: main.py:47-48
CapBreak ==
    /\ pc = "Reading"
    /\ NextLine <= Len(file)
    /\ file[NextLine].kind = "obj"
    /\ cap_reached(max_items, i + 1)
    /\ line_no' = NextLine
    /\ i' = i + 1
    /\ pc' = "FinalFlush"
    /\ UNCHANGED <<file, sink, rate_limit_sleep, max_items, entry, summary, resp,
                   out_rows, err, calls, writes, sleeps, base, truncated, runs,
                   instance_runs, direct>>

\* the reader yields record i + 1, which has no lyrics: main.py:50-53
SkipRecord ==
    /\ pc = "Reading"
    /\ NextLine <= Len(file)
    /\ file[NextLine].kind = "obj"
    /\ ~cap_reached(max_items, i + 1)
    /\ lyrics_missing(from_dict(file[NextLine].obj))
    /\ line_no' = NextLine
    /\ i' = i + 1
    /\ entry' = from_dict(file[NextLine].obj)
    /\ pc' = "Skipped"
    /\ UNCHANGED <<file, sink, rate_limit_sleep, max_items, summary, resp, out_rows,
                   err, calls, writes, sleeps, base, truncated, runs,
                   instance_runs, direct>>

\* a plausible slip: the skipped record is handed out again
ContinueRewinding ==
    /\ pc = "Skipped"
    /\ pc' = "Reading"
    /\ i' = i - 1
    /\ line_no' = line_no - 1
    /\ UNCHANGED <<file, sink, rate_limit_sleep, max_items, entry,
                   summary, resp, out_rows, err, calls, writes, sleeps, base,
                   truncated, runs,
                   instance_runs, direct>>

\* continue: main.py:53
Continue ==
    /\ pc = "Skipped"
    /\ pc' = "Reading"
    /\ UNCHANGED <<file, sink, rate_limit_sleep, max_items, line_no, i, entry,
                   summary, resp, out_rows, err, calls, writes, sleeps, base,
                   truncated, runs,
                   instance_runs, direct>>

\* the reader yields record i + 1, which has lyrics: main.py:50-51
TakeRecord ==
    /\ pc = "Reading"
    /\ NextLine <= Len(file)
    /\ file[NextLine].kind = "obj"
    /\ ~cap_reached(max_items, i + 1)
    /\ ~lyrics_missing(from_dict(file[NextLine].obj))
    /\ line_no' = NextLine
    /\ i' = i + 1
    /\ entry' = from_dict(file[NextLine].obj)
    /\ pc' = "Summarizing"
    /\ UNCHANGED <<file, sink, rate_limit_sleep, max_items, summary, resp, out_rows,
                   err, calls, writes, sleeps, base, truncated, runs,
                   instance_runs, direct>>

\* LyricsSummarizer.summarize returns: main.py:56, utils.py:88-93
SummarizeReturns ==
    /\ pc = "Summarizing"
    /\ \E output_text \in Replies :
          /\ resp' = <<output_text>>
          /\ summary' = summarize_text(output_text)
          /\ calls' = Append(calls, [i |-> i, line |-> line_no, ok |-> TRUE,
                                     summary |-> summarize_text(output_text)])
    /\ pc' = "Building"
    /\ UNCHANGED <<file, sink, rate_limit_sleep, max_items, line_no, i, entry,
                   out_rows, err, writes, sleeps, base, truncated, runs,
                   instance_runs, direct>>

\* a plausible slip: the failure is caught and the record dropped
SummarizeRaisesSwallowed ==
    /\ pc = "Summarizing"
    /\ calls' = Append(calls, [i |-> i, line |-> line_no, ok |-> FALSE,
                            summary |-> <<>>])
    /\ pc' = "Reading"
    /\ UNCHANGED <<file, sink, rate_limit_sleep, max_items, line_no, i, entry,
                   summary, resp, out_rows, err, writes, sleeps, base, truncated,
                   runs, instance_runs, direct>>

\* the service call raises, and run() with it: utils.py:88
SummarizeRaises ==
    /\ pc = "Summarizing"
    /\ calls' = Append(calls, [i |-> i, line |-> line_no, ok |-> FALSE,
                            summary |-> <<>>])
    /\ err' = [type |-> "ServiceError", line_no |-> 0]
    /\ pc' = "Failed"
    /\ UNCHANGED <<file, sink, rate_limit_sleep, max_items, line_no, i, entry,
                   summary, resp, out_rows, writes, sleeps, base, truncated, runs,
                   instance_runs, direct>>

\* the pair of the record in hand: main.py:60-66
make_pair(e, s) ==
    [prompt |-> build_prompt(e, s),
     completion |-> add_title_to_lyrics(e.song_title, e.song_lyrics)]

\* build the prompt and the completion, append the pair: main.py:60-66
Build ==
    /\ pc = "Building"
    /\ out_rows' = Append(out_rows, make_pair(entry, summary))
    /\ resp' = NoResponse
    /\ pc' = "Buffered"
    /\ UNCHANGED <<file, sink, rate_limit_sleep, max_items, line_no, i, entry,
                   summary, err, calls, writes, sleeps, base, truncated, runs,
                   instance_runs, direct>>

\* a plausible slip: the pause is left out
pauses_never(delay) == 0

\* main.py:69-70  the number of time.sleep calls after a pair is appended
pauses(delay) == IF delay # 0 THEN 1 ELSE 0

\* the throttle pause, then the test of the buffer: main.py:69-73
Throttle ==
    /\ pc = "Buffered"
    /\ sleeps' = sleeps + pauses(rate_limit_sleep)
    /\ pc' = IF buffer_full(out_rows) THEN "Flushing" ELSE "Reading"
    /\ UNCHANGED <<file, sink, rate_limit_sleep, max_items, line_no, i, entry,
                   summary, resp, out_rows, err, calls, writes, base, truncated, runs,
                   instance_runs, direct>>

\* a plausible slip: the buffer is not cleared
cleared_not(rows) == rows

\* main.py:75  out_rows.clear()
cleared(rows) == <<>>

\* the periodic flush: main.py:74-75
Flush ==
    /\ pc = "Flushing"
    /\ sink' = write_many(sink, out_rows)
    /\ writes' = Append(writes, Len(out_rows))
    /\ out_rows' = cleared(out_rows)
    /\ pc' = "Reading"
    /\ UNCHANGED <<file, rate_limit_sleep, max_items, line_no, i, entry, summary, resp,
                   err, calls, sleeps, base, truncated, runs,
                   instance_runs, direct>>

\* the final flush, and run() returns: main.py:78-79
FinalFlush ==
    /\ pc = "FinalFlush"
    /\ IF out_rows # <<>>
       THEN /\ sink' = write_many(sink, out_rows)
            /\ writes' = Append(writes, Len(out_rows))
       ELSE UNCHANGED <<sink, writes>>
    /\ pc' = "Done"
    /\ UNCHANGED <<file, rate_limit_sleep, max_items, line_no, i, entry, summary, resp,
                   out_rows, err, calls, sleeps, base, truncated, runs,
                   instance_runs, direct>>

Next ==
    \/ Construct
    \/ Run
    \/ RunAgain
    \/ ReaderExhausted
    \/ ReaderRaises
    \/ CapBreak
    \/ SkipRecord
    \/ Continue
    \/ TakeRecord
    \/ SummarizeReturns
    \/ SummarizeRaises
    \/ Build
    \/ Throttle
    \/ Flush
    \/ FinalFlush

Spec == Init /\ [][Next]_vars

\* one run() of a fresh pipeline with a Summarizer that always returns;
\* run() is sequential code with no wait of its own, so a step that can be
\* taken is taken
NextLive ==
    \/ Run
    \/ ReaderExhausted
    \/ ReaderRaises
    \/ CapBreak
    \/ SkipRecord
    \/ Continue
    \/ TakeRecord
    \/ SummarizeReturns
    \/ Build
    \/ Throttle
    \/ Flush
    \/ FinalFlush

SpecLive == Init /\ [][NextLive]_vars /\ WF_vars(NextLive)

\* ------------------------------------------- add_title_to_lyrics, directly
Alphabet == {" ", "\n", "a", "b"}
Strings == UNION {[1..n -> Alphabet] : n \in 0..MaxLen}

\* a pipeline that is never run, and the arguments of one direct call
InitBuild ==
    /\ file = <<>>
    /\ max_items = NoCap
    /\ sink = <<>>
    /\ rate_limit_sleep = DefaultSleep
    /\ pc = "Idle"
    /\ line_no = 0
    /\ i = 0
    /\ entry = NoEntry
    /\ summary = <<>>
    /\ resp = NoResponse
    /\ out_rows = <<>>
    /\ err = NoError
    /\ calls = <<>>
    /\ writes = <<>>
    /\ sleeps = 0
    /\ base = <<>>
    /\ truncated = FALSE
    /\ runs = 0
    /\ instance_runs = 0
    /\ title \in Strings
    /\ lyrics \in Strings
    /\ completion = NoneVal

\* LyricsPostProcessor().add_title_to_lyrics(title, lyrics)
CallAddTitle ==
    /\ completion = NoneVal
    /\ completion' = add_title_to_lyrics(title, lyrics)
    /\ UNCHANGED <<pipeline, title, lyrics>>

NextBuild == CallAddTitle

SpecBuild == InitBuild /\ [][NextBuild]_vars

\* ------------------------------------------------------------ observations
\* the numbers of the non-blank lines of the input, in order: record p of
\* the input is line RecordLines[p]
IsNonBlankAt(n) == file[n].kind # "blank"
RecordLines == SelectSeq([n \in 1..Len(file) |-> n], IsNonBlankAt)

WellFormed == \A n \in 1..Len(file) : file[n].kind # "bad"

\* line n holds a record with non-empty lyrics
HasLyricsAt(n) == file[n].kind = "obj" /\ Truthy(Get(file[n].obj, "lyrics"))

\* the lines of those of the first n records that have non-empty lyrics
WantedUpTo(n) == SelectSeq(SubSeq(RecordLines, 1, n), HasLyricsAt)

\* the lines this run has appended to the sink
Written == SubSeq(sink, Len(base) + 1, Len(sink))

\* the pair the input and the Summarizer's reply determine for call c
PairOfCall(c) == make_pair(from_dict(file[c.line].obj), c.summary)

Min(a, b) == IF a <= b THEN a ELSE b

\* ------------------------------------------------------------------ claims
\* C1: when run() returns with no cap configured on an input whose non-blank
\* lines are all well-formed, the lines it appended to the sink are exactly
\* one pair per record with non-empty lyrics, in input order.
C1_ExactlyOncePerRecordInOrder ==
    (pc = "Done" /\ max_items = NoCap /\ WellFormed) =>
        LET want == WantedUpTo(Len(RecordLines))
        IN  /\ Len(calls) = Len(want)
            /\ Len(Written) = Len(want)
            /\ \A k \in 1..Len(want) :
                  /\ calls[k].line = want[k]
                  /\ calls[k].ok
                  /\ Written[k] = PairOfCall(calls[k])

\* C1 witness: an uncapped run returned having skipped a record and written
\* the pairs of two different songs
C1_Witness ==
    /\ pc = "Done"
    /\ max_items = NoCap
    /\ WellFormed
    /\ Len(Written) = 2
    /\ Written[1] # Written[2]
    /\ Len(RecordLines) = 3

\* C2: the Summarizer is never called for a record without lyrics; while
\* such a record is in hand no error is raised and no pair of it is in the
\* buffer or the sink; the next step goes back to reading and changes
\* nothing else.
C2_SkipState ==
    /\ \A k \in 1..Len(calls) : HasLyricsAt(calls[k].line)
    /\ pc = "Skipped" =>
          /\ ~Truthy(entry.song_lyrics)
          /\ err = NoError
          /\ \A k \in 1..Len(calls) : calls[k].i < i
          /\ Len(Written) + Len(out_rows) = Len(calls)

C2_SkipStep ==
    pc = "Skipped" =>
        /\ pc' = "Reading"
        /\ UNCHANGED <<sink, out_rows, calls, err, i, line_no>>

C2_EmptyLyricsSkipped == []C2_SkipState /\ [][C2_SkipStep]_vars

\* C2 witness: a record with an empty lyrics string, and one with no lyrics
\* key, were skipped and the run went on to summarize a later record
C2_Witness ==
    /\ pc = "Building"
    /\ i = 3
    /\ file[1] = ObjLine(Song4)
    /\ file[2] = ObjLine(Song3)
    /\ Len(calls) = 1

\* C3: with a cap N >= 1 no record beyond position N is summarized, and
\* when run() returns on an input of at least N records the records
\* summarized are exactly those of the first N with lyrics, so the run
\* appended N - k pairs, k being the number of the first N without lyrics.
C3_CapCountsRawPositions ==
    (max_items # NoCap /\ max_items[1] >= 1) =>
        /\ \A k \in 1..Len(calls) : calls[k].i <= max_items[1]
        /\ Len(Written) <= Len(WantedUpTo(Min(max_items[1], Len(RecordLines))))
        /\ (pc = "Done" /\ Len(RecordLines) >= max_items[1]) =>
              LET want == WantedUpTo(max_items[1])
              IN  /\ Len(calls) = Len(want)
                  /\ Len(Written) = Len(want)
                  /\ \A k \in 1..Len(want) :
                        /\ calls[k].line = want[k]
                        /\ Written[k] = PairOfCall(calls[k])

\* C3 witness: cap 2 on three records, the first without lyrics: one pair
C3_Witness ==
    /\ pc = "Done"
    /\ max_items = <<2>>
    /\ Len(file) = 3
    /\ WellFormed
    /\ ~HasLyricsAt(1)
    /\ HasLyricsAt(2)
    /\ HasLyricsAt(3)
    /\ Len(Written) = 1

\* the write sizes the claim gives for m emitted pairs
BatchSizes(m) ==
    [k \in 1..((m \div 100) + (IF m % 100 = 0 THEN 0 ELSE 1)) |->
        IF k <= m \div 100 THEN 100 ELSE m % 100]

\* C4: a run that emitted M pairs and returned made M div 100 writes of 100
\* pairs and then one write of M mod 100 pairs when that is not zero; before
\* it returns every write made has 100 pairs and fewer than 100 pairs wait
\* in the buffer whenever a record is read.
C4_BatchSizes ==
    /\ pc = "Done" => writes = BatchSizes(Len(calls))
    /\ pc \notin {"Done", "Idle"} =>
          /\ \A k \in 1..Len(writes) : writes[k] = 100
          /\ pc \in {"Reading", "FinalFlush", "Failed"} =>
                /\ Len(out_rows) < 100
                /\ Len(writes) = (Len(Written) + Len(out_rows)) \div 100

\* C4 witness: 250 records, writes of 100, 100 and 50
C4_Witness ==
    /\ pc = "Done"
    /\ Len(file) = 250
    /\ Len(calls) = 250
    /\ writes = <<100, 100, 50>>

IsOk(c) == c.ok

\* C5: when a run returns that is the first of a pipeline constructed after
\* an earlier run on the same output path, the sink holds the pairs of this
\* run and nothing else.
C5_SecondRunOnly ==
    (pc = "Done" /\ runs >= 2 /\ instance_runs = 1) =>
        /\ Len(sink) = Len(calls)
        /\ \A k \in 1..Len(calls) : calls[k].ok /\ sink[k] = PairOfCall(calls[k])

\* C5 witness: the second construction emptied a sink that held pairs, and
\* the second run has written its own
C5_Witness ==
    /\ pc = "Done"
    /\ runs = 2
    /\ instance_runs = 1
    /\ truncated
    /\ Len(sink) = 2

\* the lines of the input that are malformed
BadLines == {n \in 1..Len(file) : file[n].kind = "bad"}

\* C6: a run that ends on a malformed line has failed with an error naming
\* that line's 1-based number in the file, which is the first malformed line
\* of the file; and at no time has the Summarizer been called, or a pair
\* been written, for a line after a malformed one.
C6_MalformedLineFatal ==
    /\ err.type = "ValueError" =>
          /\ pc = "Failed"
          /\ err.line_no \in BadLines
          /\ \A n \in BadLines : err.line_no <= n
          /\ line_no = err.line_no
    /\ \A n \in BadLines :
          /\ \A k \in 1..Len(calls) : calls[k].line < n
          /\ Len(Written) <= Len(calls)
          /\ \A k \in 1..Len(Written) : Written[k] = PairOfCall(calls[k])
          /\ pc = "Reading" => line_no < n

\* C6 witness: a blank line, a record, a malformed line: the error names
\* line 3 though the bad line follows record 1
C6_Witness ==
    /\ pc = "Failed"
    /\ err = [type |-> "ValueError", line_no |-> 3]
    /\ file[1] = BlankLine
    /\ i = 1
    /\ Len(calls) = 1

\* C7: when a run has failed, the sink still starts with what it held when
\* the run began, followed by the pairs flushed, in whole batches of 100 and
\* in order of emission, and the emitted pairs missing from the sink are
\* exactly the buffer, which holds fewer than 100 pairs.
C7_CrashLosesOnlyBuffer ==
    pc = "Failed" =>
        LET ok == SelectSeq(calls, IsOk)
        IN  /\ Len(sink) >= Len(base)
            /\ SubSeq(sink, 1, Len(base)) = base
            /\ Len(out_rows) < 100
            /\ Len(Written) = 100 * Len(writes)
            /\ Len(Written) + Len(out_rows) = Len(ok)
            /\ \A k \in 1..Len(Written) : Written[k] = PairOfCall(ok[k])
            /\ \A k \in 1..Len(out_rows) :
                  out_rows[k] = PairOfCall(ok[Len(Written) + k])

\* C7 witness: the Summarizer fails after one flush, with pairs in the buffer
C7_Witness ==
    /\ pc = "Failed"
    /\ err.type = "ServiceError"
    /\ Len(sink) = 100
    /\ Len(out_rows) = 1

\* s without its outer whitespace: the stretches of s between a prefix and
\* a suffix of whitespace that do not start or end with whitespace
Stripped(s) ==
    {SubSeq(s, a + 1, b) : <<a, b>> \in
        {ab \in (0..Len(s)) \X (0..Len(s)) :
            /\ ab[1] <= ab[2]
            /\ \A n \in 1..ab[1] : s[n] \in Whitespace
            /\ \A n \in (ab[2] + 1)..Len(s) : s[n] \in Whitespace
            /\ ab[1] < ab[2] =>
                  (s[ab[1] + 1] \notin Whitespace /\ s[ab[2]] \notin Whitespace)}}

\* C8: for a title and lyrics that are strings, add_title_to_lyrics returns
\* the lyrics without outer whitespace when the title without outer
\* whitespace is empty, and otherwise that title, two newlines, those lyrics.
C8_CompletionBuilder ==
    completion # NoneVal =>
        /\ Cardinality(Stripped(title)) = 1
        /\ Cardinality(Stripped(lyrics)) = 1
        /\ \A t \in Stripped(title) : \A l \in Stripped(lyrics) :
              completion = IF t = <<>> THEN l ELSE t \o <<"\n", "\n">> \o l

\* C8 witness: outer whitespace of both is gone, inner whitespace is kept
C8_Witness ==
    /\ title = <<" ", "a", "\n">>
    /\ lyrics = <<"a", " ", "b">>
    /\ completion = <<"a", "\n", "\n", "a", " ", "b">>

\* the number of lines of the input holding a record
NumRecords == Cardinality({n \in 1..Len(file) : file[n].kind = "obj"})

\* C9, as claimed: with a cap N >= 1 on an input holding more than N
\* records, whose first N non-blank lines are well-formed, no malformed line
\* makes the run fail.
C9_CapHaltsCleanly ==
    (/\ max_items # NoCap
     /\ max_items[1] >= 1
     /\ NumRecords > max_items[1]
     /\ Len(RecordLines) > max_items[1]
     /\ \A p \in 1..max_items[1] : file[RecordLines[p]].kind = "obj")
    => err.type # "ValueError"

\* C10, as claimed: with a cap of 0 no record is summarized and nothing is
\* written.
C10_CapZeroProcessesNothing ==
    max_items = <<0>> => (calls = <<>> /\ Written = <<>>)

\* C11: the Summarizer is called for strictly increasing record indices, so
\* at most once per record; only the last call of a run can have failed;
\* and when one has, run() has ended with its error, the pairs emitted are
\* those of the calls before it, and the reader stands at the failed record.
C11_FailState ==
    /\ \A k \in 1..(Len(calls) - 1) : calls[k].ok /\ calls[k].i < calls[k + 1].i
    /\ (calls # <<>> /\ ~calls[Len(calls)].ok) =>
          /\ pc = "Failed"
          /\ err.type = "ServiceError"
          /\ calls[Len(calls)].i = i
          /\ calls[Len(calls)].line = line_no
          /\ Len(Written) + Len(out_rows) = Len(calls) - 1

\* the step at which the call fails changes neither buffer nor sink
C11_FailStep ==
    (pc = "Summarizing" /\ pc' = "Failed") =>
        UNCHANGED <<out_rows, sink, i, line_no>>

C11_SummarizerFailureFatal == []C11_FailState /\ [][C11_FailStep]_vars

\* C11 witness: the second call failed after the first pair was buffered
C11_Witness ==
    /\ pc = "Failed"
    /\ Len(calls) = 2
    /\ ~calls[2].ok
    /\ Len(out_rows) = 1
    /\ line_no < Len(file)

\* the calls of this run that returned
NumOk == Len(SelectSeq(calls, IsOk))

\* C12: with a non-zero delay the pauses made so far are one per emitted
\* pair, the pair just built or buffered excepted: each pause comes after
\* the pair is in the buffer and before the next record is read, none is
\* made for a skipped record, and at every Summarizer call each earlier
\* call has had its pause.
C12_PauseState ==
    (rate_limit_sleep # 0 /\ pc # "Idle") =>
        /\ sleeps = IF pc \in {"Building", "Buffered"} THEN NumOk - 1 ELSE NumOk
        /\ pc = "Buffered" => Len(Written) + Len(out_rows) = sleeps + 1
        /\ pc \in {"Reading", "Skipped", "Summarizing"} =>
              /\ sleeps = Len(calls)
              /\ Len(Written) + Len(out_rows) = sleeps

\* the pause is the step that leaves Buffered, and no other step of a run
\* pauses
C12_PauseStep ==
    (rate_limit_sleep # 0 /\ pc \notin {"Idle", "Done", "Failed"}) =>
        IF pc = "Buffered" THEN sleeps' = sleeps + 1 ELSE sleeps' = sleeps

C12_ThrottleAfterEachPair == []C12_PauseState /\ [][C12_PauseStep]_vars

\* C12 witness: a second call is about to be made after one pause, a
\* skipped record lying between the two
C12_Witness ==
    /\ rate_limit_sleep # 0
    /\ pc = "Summarizing"
    /\ i = 3
    /\ Len(calls) = 1
    /\ sleeps = 1

\* C13: the buffer never holds more than 100 pairs, and holds fewer than
\* 100 whenever the reader is asked for the next record.
C13_BufferBounded ==
    /\ Len(out_rows) <= 100
    /\ pc \in {"Reading", "Skipped", "Summarizing", "Building"} =>
          Len(out_rows) < 100
    /\ Len(out_rows) = 100 => pc \in {"Buffered", "Flushing"}

\* C13 witness: the buffer holds 100 pairs, the flush is next
C13_Witness ==
    /\ pc = "Flushing"
    /\ Len(out_rows) = 100
    /\ Len(sink) = 100

C15_ReplyState ==
    (pc = "Building" /\ ~Truthy(resp[1])) =>
        /\ summary = <<>>
        /\ err = NoError
        /\ calls[Len(calls)].ok
        /\ calls[Len(calls)].i = i
        /\ calls[Len(calls)].summary = <<>>

C15_ReplyStep ==
    /\ (pc = "Building" /\ ~Truthy(resp[1])) =>
          /\ out_rows' = Append(out_rows,
                [prompt |-> build_prompt(entry, <<>>),
                 completion |-> add_title_to_lyrics(entry.song_title,
                                                    entry.song_lyrics)])
          /\ pc' = "Buffered"
          /\ err' = NoError
    /\ pc = "Buffered" =>
          /\ pc' \in {"Reading", "Flushing"}
          /\ UNCHANGED <<out_rows, sink, i, line_no, err>>

C15_EmptyOutputIsEmptySummary ==
    []C15_ReplyState /\ [][C15_ReplyStep]_vars

\* C15 witness: the first record's reply was empty and its pair is in the
\* buffer; the second record's reply is null
C15_Witness ==
    /\ pc = "Building"
    /\ resp = <<NoneVal>>
    /\ i = 2
    /\ Len(calls) = 2
    /\ calls[1].summary = <<>>
    /\ Len(out_rows) = 1
    /\ out_rows[1].prompt = build_prompt(from_dict(file[calls[1].line].obj), <<>>)

\* C16: the records run() consumes are the non-blank lines of the input, in
\* order, each once, numbered from 1: the record numbered i is the i-th
\* non-blank line. Blank lines take no number, so the cap does not count
\* them.
C16_NumberingState ==
    LET recs == RecordLines
    IN  /\ i <= Len(recs) /\ line_no <= Len(file)
        /\ i = 0 => pc \in {"Idle", "Reading", "FinalFlush", "Done", "Failed"}
        /\ pc \in {"Skipped", "Summarizing", "Building", "Buffered", "Flushing"} =>
              /\ i >= 1
              /\ line_no = recs[i]
              /\ file[line_no].kind = "obj"
              /\ max_items # NoCap /\ max_items[1] # 0 => i <= max_items[1]
        /\ pc = "Reading" =>
              line_no = IF i = 0 THEN 0 ELSE recs[i]
        /\ pc \in {"FinalFlush", "Done"} =>
              \/ i = Len(recs) /\ line_no = Len(file)
              \/ /\ i >= 1 /\ line_no = recs[i]
                 /\ max_items # NoCap /\ max_items[1] # 0 /\ i = max_items[1] + 1
        /\ pc = "Failed" =>
              \/ /\ err.type = "ServiceError"
                 /\ i >= 1 /\ line_no = recs[i]
              \/ /\ err.type # "ServiceError"
                 /\ i < Len(recs) /\ line_no = recs[i + 1]
                 /\ file[line_no].kind = "bad"

C16_NumberingStep ==
    (pc \notin {"Idle", "Done", "Failed"} /\ i' # i) =>
        /\ pc = "Reading"
        /\ i' = i + 1
        /\ line_no' = RecordLines[i + 1]
        /\ line_no' > line_no
        /\ \A n \in (line_no + 1)..(line_no' - 1) : file[n].kind = "blank"

C16_RecordsAreNonBlankLines ==
    []C16_NumberingState /\ [][C16_NumberingStep]_vars

\* C16 witness: a blank line, then two records, under a cap of 1: the
\* record on line 2 is record 1 and is processed
C16_Witness ==
    /\ Len(file) = 3
    /\ file[1].kind = "blank"
    /\ max_items = <<1>>
    /\ pc = "Buffered"
    /\ i = 1
    /\ line_no = 2
    /\ Len(out_rows) = 1

\* C17: on an input with only well-formed lines, with a Summarizer that
\* always returns, run() reaches Done, with or without a cap; it takes only
\* the listed transitions (the final flush is the Flushing that leads to
\* Done) and never goes back to a record it has consumed.
C17_Listed ==
    {<<"Idle", "Reading">>,
     <<"Reading", "Skipped">>, <<"Skipped", "Reading">>,
     <<"Reading", "Summarizing">>, <<"Summarizing", "Building">>,
     <<"Building", "Buffered">>, <<"Buffered", "Reading">>,
     <<"Buffered", "Flushing">>, <<"Flushing", "Reading">>,
     <<"Reading", "FinalFlush">>, <<"FinalFlush", "Done">>}

C17_ListedStep ==
    WellFormed =>
        /\ <<pc, pc'>> \in C17_Listed
        /\ i' >= i /\ line_no' >= line_no
        /\ (pc = "Reading" /\ pc' \in {"Skipped", "Summarizing"}) =>
              i' = i + 1 /\ line_no' > line_no
        /\ pc # "Reading" => i' = i /\ line_no' = line_no

C17_Terminates == WellFormed => <>(pc = "Done" /\ err = NoError)

C17_RunReachesDone == C17_Terminates /\ [][C17_ListedStep]_vars

\* C17 witness: a run over three records, one of them skipped, has ended
C17_Witness ==
    /\ WellFormed
    /\ max_items = NoCap
    /\ pc = "Done"
    /\ i = 3
    /\ Len(sink) = 2
    /\ Len(calls) = 2

\* C18, as claimed: a record with non-empty lyrics and no title raises no
\* error, and its completion is the lyrics with the outer whitespace
\* stripped, with no title prefix.
C18_NoTitleNoPrefix ==
    (pc = "Buffered" /\ max_items = NoCap /\ entry.song_title = NoneVal) =>
        /\ err = NoError
        /\ out_rows[Len(out_rows)].completion = Strip(entry.song_lyrics)

\* C19, as claimed: at every state of a run, the lines the run has written
\* followed by the buffer are, in order, the pairs of the records consumed
\* so far that had non-empty lyrics. A record is consumed here once its
\* pair is built; the record the cap stopped at is not consumed.
C19_Consumed ==
    IF pc \in {"FinalFlush", "Done"} /\ cap_reached(max_items, i)
    THEN i - 1
    ELSE i

C19_InProgress ==
    IF \/ pc \in {"Summarizing", "Building"}
       \/ pc = "Failed" /\ err.type = "ServiceError"
    THEN 1
    ELSE 0

C19_IsEmitted(rows) ==
    LET want == WantedUpTo(C19_Consumed)
        m == Len(want) - C19_InProgress
    IN  /\ Len(rows) = m
        /\ Len(calls) = m + (IF pc = "Summarizing" THEN 0 ELSE C19_InProgress)
        /\ \A k \in 1..m :
              /\ calls[k].line = want[k]
              /\ rows[k] = PairOfCall(calls[k])

C19_EmittedState ==
    /\ pc \notin {"Idle", "Done"} => C19_IsEmitted(Written \o out_rows)
    /\ pc = "Done" =>
          /\ C19_IsEmitted(Written)
          /\ out_rows = SubSeq(sink, Len(sink) - Len(out_rows) + 1, Len(sink))
          /\ out_rows # <<>> => Len(out_rows) = writes[Len(writes)]

C19_SinkStep ==
    pc \notin {"Idle", "Done", "Failed"} =>
        /\ Len(sink') >= Len(sink)
        /\ SubSeq(sink', 1, Len(sink)) = sink
        /\ Len(sink') + Len(out_rows') >= Len(sink) + Len(out_rows)

C20_AppendState ==
    /\ pc # "Idle" =>
          /\ Len(base) <= Len(sink)
          /\ SubSeq(sink, 1, Len(base)) = base
          /\ Len(sink) = Len(base) + IF writes = <<>> THEN 0
                                     ELSE (Len(writes) - 1) * FlushThreshold
                                          + writes[Len(writes)]
    /\ instance_runs <= 1 => base = <<>>
    /\ (pc = "Done" /\ instance_runs = 2) =>
          /\ Len(Written) = Len(calls)
          /\ \A k \in 1..Len(calls) : Written[k] = PairOfCall(calls[k])
          /\ (max_items = NoCap /\ WellFormed) =>
                Len(base) = Len(WantedUpTo(Len(RecordLines)))

C20_TruncateStep ==
    IF pc' = "Idle"
    THEN pc \in {"Done", "Failed"} /\ sink' = <<>> /\ instance_runs' = 0
    ELSE /\ Len(sink') >= Len(sink)
         /\ \A k \in 1..Len(sink) : sink'[k] = sink[k]
         /\ pc' = "Reading" /\ pc \in {"Idle", "Done"} => sink' = sink

C20_SecondRunAppends ==
    []C20_AppendState /\ [][C20_TruncateStep]_vars

\* C20 witness: the second run() on the same pipeline has returned, the
\* pairs of the first run are in the sink and those of the second follow
C20_Witness ==
    /\ pc = "Done"
    /\ instance_runs = 2
    /\ Len(base) = 2
    /\ Len(sink) = 4
    /\ SubSeq(sink, 1, 2) = base
    /\ sink[3].completion = base[1].completion

====
